---- MODULE Spec2Model ----
(***************************************************************************)
(* State-machine model of async_comm::Comm (src/src/comm.cpp): the owner   *)
(* thread (init / close / destructor), the supervisor thread (Comm::run),  *)
(* the I/O thread (io_service::run executing the read and write completion *)
(* handlers), the callback thread (Comm::process_callbacks) and the        *)
(* threads calling Comm::send_bytes.                                       *)
(***************************************************************************)
EXTENDS Integers, Sequences, FiniteSets

(* ------------------------------ bounds --------------------------------- *)
\* number of application threads calling send_bytes
NumSenders == 2
\* send_bytes calls made in total
MaxSends == 2
\* longest payload handed to one send_bytes call
MaxLen == 3
\* maximum chunk size (WRITE_BUFFER_SIZE of comm.h), kept small
WRITE_BUFFER_SIZE == 2
\* size of the shared scratch buffer (READ_BUFFER_SIZE of comm.h), kept small
READ_BUFFER_SIZE == 2
\* successful read completions the transport produces
MaxReads == 2
\* close() calls the owner makes
MaxCloses == 2

\* What the environment does in one run: how many threads call send_bytes, how
\* many calls they make and how long their payloads are, how many reads the
\* transport completes, how often the owner calls close() and whether it destroys
\* the object.
WriteTraffic ==
  [callers |-> NumSenders, sends |-> MaxSends, len |-> MaxLen, reads |-> 0,
   closes |-> 0, dtor |-> FALSE]
ReadTraffic ==
  [callers |-> 1, sends |-> 0, len |-> 0, reads |-> MaxReads,
   closes |-> 1, dtor |-> TRUE]
Lifecycle ==
  [callers |-> 1, sends |-> 1, len |-> MaxLen, reads |-> 1,
   closes |-> MaxCloses, dtor |-> TRUE]
Profiles == {WriteTraffic, ReadTraffic, Lifecycle}
\* the profile of the runs in which progress is checked
OneOfEach ==
  [callers |-> 1, sends |-> 1, len |-> WRITE_BUFFER_SIZE, reads |-> 1,
   closes |-> 1, dtor |-> TRUE]

(* ------------------------------ threads -------------------------------- *)
OWNER == <<"owner", 0>>
MAIN == <<"main", 0>>
IO == <<"io", 0>>
CB == <<"cb", 0>>
NONE == <<"none", 0>>
Sender(i) == <<"sender", i>>
Senders == {Sender(i) : i \in 1..NumSenders}
Threads == {OWNER, MAIN, IO, CB} \cup Senders

VARIABLES
  env,                 \* the environment's profile, fixed at the start
  pc,                  \* position of every thread
  error_, shutdown_, new_data_, callback_shutdown_, write_in_progress_,
  stopped,             \* io_service_ has been stopped
  is_open,             \* what the transport's is_open() returns
  joinable,            \* main_thread_.joinable()
  main_mutex_, callback_mutex_,   \* holder of the mutex, or NONE
  write_mutex_,        \* [owner, count] of the recursive write mutex
  write_queue_,        \* list of WriteBuffer: [data, pos]
  read_queue_,         \* list of ReadBuffer: the copied bytes
  local_queue,         \* process_callbacks' local list
  read_buffer_,        \* the shared scratch buffer
  reads_armed,         \* reads outstanding at the transport
  write_ops,           \* writes outstanding at the transport: the bytes offered
  bytes_transferred,   \* argument of the completion handler being run
  src, pos,            \* send_bytes' arguments and loop variable, per sender
  owner_call,          \* "none", "close" or "dtor": what the owner is running
  opened,              \* "no", "ok" or "failed": outcome of init()
  closes,              \* close() calls that have returned
  sends,               \* send_bytes calls made so far
  wire,                \* bytes the transport's write hook accepted, in completion order
  sent,                \* payloads of the send_bytes calls, concatenated in call order
  failed,              \* the front chunk when a write completed with an error, if any
  completions,         \* payloads of the successful read completions
  read_failed,         \* a read completion has reported an error
  delivered            \* payloads passed to the receive callback

flags == <<error_, shutdown_, new_data_, callback_shutdown_, write_in_progress_>>
life == <<stopped, is_open, joinable, owner_call, opened, closes>>
locks == <<main_mutex_, callback_mutex_, write_mutex_>>
wside == <<write_queue_, write_ops, src, pos, sends, wire, sent, failed>>
rside == <<read_queue_, local_queue, read_buffer_, reads_armed, completions,
           read_failed, delivered>>
vars == <<env, pc, flags, life, locks, wside, rside, bytes_transferred>>

(* ------------------------------ helpers -------------------------------- *)
IsPrefix(a, b) == Len(a) <= Len(b) /\ SubSeq(b, 1, Len(a)) = a

Range(s) == {s[i] : i \in 1..Len(s)}

Goto(t, l) == pc' = [pc EXCEPT ![t] = l]

\* the payload of call number c of sender i: len bytes, each tagged with its origin
Payload(i, c, len) == [k \in 1..len |-> <<i, c, k>>]

\* WriteBuffer(buf, len): copies the bytes, pos = 0
WriteBuffer(buf) == [data |-> buf, pos |-> 0]
\* WriteBuffer::dpos() .. dpos() + nbytes(): the unsent remainder
Remainder(b) == SubSeq(b.data, b.pos + 1, Len(b.data))
\* WriteBuffer::nbytes()
NBytes(b) == Len(b.data) - b.pos

\* ReadBuffer(buf, len): copies the first len bytes of buf
ReadBuffer(buf, len) == SubSeq(buf, 1, len)

(* -------------------------- the write mutex ---------------------------- *)
\* write_mutex_ is a std::recursive_mutex (mutex_lock is a lock_guard on it)
WriteMutexRecursive == TRUE
\* a write mutex that excludes nobody
WriteMutexFreeAlways(t) == TRUE

\* mutex_lock lock(write_mutex_) can proceed: the mutex is free, or it is
\* recursive and the thread holds it already
WriteMutexFree(t) ==
  \/ write_mutex_.owner = NONE
  \/ WriteMutexRecursive /\ write_mutex_.owner = t
WriteMutexLock(t) == [owner |-> t, count |-> write_mutex_.count + 1]
\* a return that gives up one level of the recursive mutex only
WriteMutexReleasedOnce ==
  [owner |-> IF write_mutex_.count > 1 THEN write_mutex_.owner ELSE NONE,
   count |-> write_mutex_.count - 1]

\* ~lock_guard of every guard the thread holds, on return to the caller's caller
WriteMutexReleased == [owner |-> NONE, count |-> 0]

Boot ==
  /\ pc = [t \in Threads |->
             IF t = OWNER \/ t \in Senders THEN "idle" ELSE "off"]
  /\ error_ = FALSE /\ shutdown_ = FALSE /\ new_data_ = FALSE
  /\ callback_shutdown_ = FALSE /\ write_in_progress_ = FALSE
  /\ stopped = FALSE /\ is_open = FALSE /\ joinable = FALSE
  /\ main_mutex_ = NONE /\ callback_mutex_ = NONE
  /\ write_mutex_ = [owner |-> NONE, count |-> 0]
  /\ write_queue_ = <<>> /\ read_queue_ = <<>> /\ local_queue = <<>>
  /\ read_buffer_ = [k \in 1..READ_BUFFER_SIZE |-> 0]
  /\ reads_armed = 0 /\ write_ops = <<>> /\ bytes_transferred = 0
  /\ src = [s \in Senders |-> <<>>] /\ pos = [s \in Senders |-> 0]
  /\ owner_call = "none" /\ opened = "no" /\ closes = 0
  /\ sends = 0
  /\ wire = <<>> /\ sent = <<>> /\ failed = <<>>
  /\ completions = <<>> /\ read_failed = FALSE /\ delivered = <<>>

Init == Boot /\ env \in Profiles

(* ------------------------- condition variables ------------------------- *)
\* a notify_one that is missing
NotifyMainMissing(p) == p

\* main_condition_variable_.notify_one(): wakes the supervisor if it is blocked
NotifyMain(p) ==
  IF p[MAIN] = "wait_blocked" THEN [p EXCEPT ![MAIN] = "wait_woken"] ELSE p
\* a notify_one of the callback thread that is missing
NotifyCallbackMissing(p) == p

\* callback_condition_variable_.notify_one(): wakes the callback thread if blocked
NotifyCallback(p) ==
  IF p[CB] = "cb_blocked" THEN [p EXCEPT ![CB] = "cb_woken"] ELSE p

(* ------------------------------ send_bytes ----------------------------- *)
\* a chunk size that is not capped at WRITE_BUFFER_SIZE
NumBytesUncapped(len, p) == len - p

\* size of the chunk cut at pos from a payload of len bytes
NumBytes(len, p) ==
  IF (len - p) > WRITE_BUFFER_SIZE THEN WRITE_BUFFER_SIZE ELSE (len - p)

\* send_bytes kicking with async_write(false)
SendCheckWriteStateFalse == FALSE

\* the check_write_state argument send_bytes passes to async_write
SendCheckWriteState == TRUE

\* an async_write that never takes the early return
AsyncWriteNeverSkips(check_write_state) == FALSE

\* async_write's first test: return without looking at the queue
AsyncWriteSkips(check_write_state) == check_write_state /\ write_in_progress_

\* where a thread is when async_write and its caller have returned
Home(t) == IF t = IO THEN "run" ELSE "idle"

\* send_bytes' locals once the call of thread t has returned
Returned(f, t, v) == [s \in Senders |-> IF s = t THEN v ELSE f[s]]

\* a caller thread enters send_bytes and takes the write mutex
SendBytesLock(s, len) ==
  /\ pc[s] = "idle"
  /\ s[2] <= env.callers
  /\ sends < env.sends
  /\ owner_call # "dtor"
  /\ WriteMutexFree(s)
  /\ write_mutex_' = WriteMutexLock(s)
  /\ src' = [src EXCEPT ![s] = Payload(s[2], sends + 1, len)]
  /\ pos' = [pos EXCEPT ![s] = 0]
  /\ sends' = sends + 1
  /\ sent' = sent \o Payload(s[2], sends + 1, len)
  /\ Goto(s, "sb_loop")
  /\ UNCHANGED <<env, flags, life, main_mutex_, callback_mutex_, write_queue_,
                 write_ops, wire, failed, rside, bytes_transferred>>

\* one iteration of the chunking loop
SendBytesLoop(s) ==
  /\ pc[s] = "sb_loop"
  /\ pos[s] < Len(src[s])
  /\ LET num_bytes == NumBytes(Len(src[s]), pos[s])
     IN write_queue_' = Append(write_queue_,
                          WriteBuffer(SubSeq(src[s], pos[s] + 1, pos[s] + num_bytes)))
  /\ pos' = [pos EXCEPT ![s] = pos[s] + WRITE_BUFFER_SIZE]
  /\ UNCHANGED <<env, pc, flags, life, locks, write_ops, src, sends, wire, sent, failed,
                 rside, bytes_transferred>>

\* the loop is over: async_write(true), which returns at once when a write is in flight
SendBytesKick(s) ==
  /\ pc[s] = "sb_loop"
  /\ pos[s] >= Len(src[s])
  /\ IF AsyncWriteSkips(SendCheckWriteState)
       THEN /\ write_mutex_' = WriteMutexReleased
            /\ Goto(s, Home(s))
            /\ src' = Returned(src, s, <<>>) /\ pos' = Returned(pos, s, 0)
       ELSE /\ Goto(s, "aw_lock")
            /\ UNCHANGED <<write_mutex_, src, pos>>
  /\ UNCHANGED <<env, flags, life, main_mutex_, callback_mutex_, write_queue_, write_ops,
                 sends, wire, sent, failed, rside, bytes_transferred>>

(* ------------------------------ async_write ---------------------------- *)
\* mutex_lock lock(write_mutex_) inside async_write
AsyncWriteLock(t) ==
  /\ pc[t] = "aw_lock"
  /\ WriteMutexFree(t)
  /\ write_mutex_' = WriteMutexLock(t)
  /\ Goto(t, "aw_body")
  /\ UNCHANGED <<env, flags, life, main_mutex_, callback_mutex_, wside, rside,
                 bytes_transferred>>

\* empty queue: return; else mark in flight and offer the front chunk's remainder
AsyncWriteBody(t) ==
  /\ pc[t] = "aw_body"
  /\ bytes_transferred' = IF t = IO THEN 0 ELSE bytes_transferred
  /\ IF write_queue_ = <<>>
       THEN UNCHANGED <<write_in_progress_, write_ops>>
       ELSE /\ write_in_progress_' = TRUE
            /\ write_ops' = Append(write_ops, Remainder(Head(write_queue_)))
  /\ write_mutex_' = WriteMutexReleased
  /\ Goto(t, Home(t))
  /\ src' = Returned(src, t, <<>>) /\ pos' = Returned(pos, t, 0)
  /\ UNCHANGED <<env, error_, shutdown_, new_data_, callback_shutdown_, life, main_mutex_,
                 callback_mutex_, write_queue_, sends, wire, sent, failed, rside>>

(* ---------------------------- async_write_end -------------------------- *)
\* the transport completes the outstanding write with n bytes accepted
WriteCompleteOk(n) ==
  /\ pc[IO] = "run" /\ ~stopped
  /\ write_ops # <<>>
  /\ n \in 1..Len(Head(write_ops))
  /\ wire' = wire \o SubSeq(Head(write_ops), 1, n)
  /\ write_ops' = Tail(write_ops)
  /\ bytes_transferred' = n
  /\ Goto(IO, "awe_lock")
  /\ UNCHANGED <<env, flags, life, locks, write_queue_, src, pos, sends, sent, failed,
                 rside>>

\* the transport completes the outstanding write with an error
WriteCompleteError ==
  /\ pc[IO] = "run" /\ ~stopped
  /\ write_ops # <<>>
  /\ write_ops' = Tail(write_ops)
  /\ failed' = SubSeq(write_queue_, 1, 1)
  /\ bytes_transferred' = 0
  /\ Goto(IO, "awe_err")
  /\ UNCHANGED <<env, flags, life, locks, write_queue_, src, pos, sends, wire, sent,
                 rside>>

\* if (error): error_ = true under main_mutex_
AsyncWriteEndError ==
  /\ pc[IO] = "awe_err"
  /\ main_mutex_ = NONE
  /\ error_' = TRUE
  /\ Goto(IO, "awe_notify")
  /\ UNCHANGED <<env, shutdown_, new_data_, callback_shutdown_, write_in_progress_, life,
                 locks, wside, rside, bytes_transferred>>

\* main_condition_variable_.notify_one(); return
AsyncWriteEndNotify ==
  /\ pc[IO] = "awe_notify"
  /\ pc' = NotifyMain([pc EXCEPT ![IO] = "run"])
  /\ UNCHANGED <<env, flags, life, locks, wside, rside, bytes_transferred>>

\* mutex_lock lock(write_mutex_) of the success path
AsyncWriteEndLock ==
  /\ pc[IO] = "awe_lock"
  /\ WriteMutexFree(IO)
  /\ write_mutex_' = WriteMutexLock(IO)
  /\ Goto(IO, "awe_body")
  /\ UNCHANGED <<env, flags, life, main_mutex_, callback_mutex_, wside, rside,
                 bytes_transferred>>

\* a completion handler that pops the front chunk whatever was transferred
AfterCompletionPopsAlways(q, n) == Tail(q)

\* the front chunk after pos += bytes_transferred
Advance(b, n) == [b EXCEPT !.pos = b.pos + n]
\* the queue after the completion: the front chunk advanced, and popped when sent
AfterCompletion(q, n) ==
  IF NBytes(Advance(Head(q), n)) = 0
    THEN Tail(q)
    ELSE <<Advance(Head(q), n)>> \o Tail(q)

\* a completion handler kicking with async_write(true)
EndCheckWriteStateTrue == TRUE

\* the check_write_state argument async_write_end passes to async_write
EndCheckWriteState == FALSE

\* a handler that leaves the in-flight flag set when the queue has drained
InProgressKept == write_in_progress_

\* write_in_progress_ once the handler has found the queue empty
InProgressWhenDrained == FALSE

\* advance, pop, then clear the in-flight flag or kick the next write
AsyncWriteEndBody ==
  /\ pc[IO] = "awe_body"
  /\ IF write_queue_ = <<>>
       THEN /\ write_in_progress_' = InProgressWhenDrained
            /\ write_mutex_' = WriteMutexReleased
            /\ bytes_transferred' = 0
            /\ Goto(IO, "run")
            /\ UNCHANGED write_queue_
       ELSE /\ write_queue_' = AfterCompletion(write_queue_, bytes_transferred)
            /\ IF write_queue_' = <<>>
                 THEN /\ write_in_progress_' = InProgressWhenDrained
                      /\ write_mutex_' = WriteMutexReleased
                      /\ bytes_transferred' = 0
                      /\ Goto(IO, "run")
                 ELSE IF AsyncWriteSkips(EndCheckWriteState)
                   THEN /\ write_mutex_' = WriteMutexReleased
                        /\ bytes_transferred' = 0
                        /\ Goto(IO, "run")
                        /\ UNCHANGED write_in_progress_
                   ELSE /\ Goto(IO, "aw_lock")
                        /\ UNCHANGED <<write_in_progress_, write_mutex_,
                                       bytes_transferred>>
  /\ UNCHANGED <<env, error_, shutdown_, new_data_, callback_shutdown_, life, main_mutex_,
                 callback_mutex_, write_ops, src, pos, sends, wire, sent, failed, rside>>

(* ------------------------ async_read, async_read_end ------------------- *)
\* async_read(): arms a read on the scratch buffer unless the transport is closed
AsyncRead == IF is_open THEN reads_armed + 1 ELSE reads_armed

\* the scratch buffer after the transport stored n bytes of value k in it
Received(buf, n, k) == [j \in 1..READ_BUFFER_SIZE |-> IF j <= n THEN k ELSE buf[j]]

\* the transport completes the outstanding read with n bytes
ReadCompleteOk(n) ==
  /\ pc[IO] = "run" /\ ~stopped
  /\ reads_armed > 0
  /\ Len(completions) < env.reads
  /\ read_buffer_' = Received(read_buffer_, n, Len(completions) + 1)
  /\ completions' = Append(completions, [j \in 1..n |-> Len(completions) + 1])
  /\ reads_armed' = reads_armed - 1
  /\ bytes_transferred' = n
  /\ Goto(IO, "are_push")
  /\ UNCHANGED <<env, flags, life, locks, wside, read_queue_, local_queue, read_failed,
                 delivered>>

\* the transport completes the outstanding read with an error
ReadCompleteError ==
  /\ pc[IO] = "run" /\ ~stopped
  /\ reads_armed > 0
  /\ reads_armed' = reads_armed - 1
  /\ read_failed' = TRUE
  /\ bytes_transferred' = 0
  /\ Goto(IO, "are_err")
  /\ UNCHANGED <<env, flags, life, locks, wside, read_queue_, local_queue, read_buffer_,
                 completions, delivered>>

\* if (error): error_ = true under main_mutex_
AsyncReadEndError ==
  /\ pc[IO] = "are_err"
  /\ main_mutex_ = NONE
  /\ error_' = TRUE
  /\ Goto(IO, "are_err_notify")
  /\ UNCHANGED <<env, shutdown_, new_data_, callback_shutdown_, write_in_progress_, life,
                 locks, wside, rside, bytes_transferred>>

\* an error branch that falls through to the success path
ReadErrorFallsThrough == "are_push"

\* where async_read_end goes after its error branch: it returns
ReadErrorReturns == "run"

\* main_condition_variable_.notify_one(); return
AsyncReadEndErrorNotify ==
  /\ pc[IO] = "are_err_notify"
  /\ pc' = NotifyMain([pc EXCEPT ![IO] = ReadErrorReturns])
  /\ UNCHANGED <<env, flags, life, locks, wside, rside, bytes_transferred>>

\* a handler that arms the next read before it has copied the scratch buffer
ArmedBeforeCopy == AsyncRead

\* reads outstanding while the handler copies: the next read is not armed yet
ArmedWhileCopying == reads_armed

\* copy the scratch buffer into a new ReadBuffer at the back of the read queue
AsyncReadEndPush ==
  /\ pc[IO] = "are_push"
  /\ callback_mutex_ = NONE
  /\ read_queue_' = Append(read_queue_, ReadBuffer(read_buffer_, bytes_transferred))
  /\ new_data_' = TRUE
  /\ reads_armed' = ArmedWhileCopying
  /\ Goto(IO, "are_notify")
  /\ UNCHANGED <<env, error_, shutdown_, callback_shutdown_, write_in_progress_, life, locks,
                 wside, local_queue, read_buffer_, completions, read_failed, delivered,
                 bytes_transferred>>

\* callback_condition_variable_.notify_one(); async_read()
AsyncReadEndNotify ==
  /\ pc[IO] = "are_notify"
  /\ pc' = NotifyCallback([pc EXCEPT ![IO] = "run"])
  /\ reads_armed' = AsyncRead
  /\ bytes_transferred' = 0
  /\ UNCHANGED <<env, flags, life, locks, wside, read_queue_, local_queue, read_buffer_,
                 completions, read_failed, delivered>>

\* io_service::run returns: stopped, or no operation is outstanding
IoRunReturn ==
  /\ pc[IO] = "run"
  /\ stopped \/ (reads_armed = 0 /\ write_ops = <<>>)
  /\ Goto(IO, "done")
  /\ UNCHANGED <<env, flags, life, locks, wside, rside, bytes_transferred>>

(* ------------------------------- run ----------------------------------- *)
\* callback_thread_ = std::thread(process_callbacks)
RunStartCallback ==
  /\ pc[MAIN] = "start"
  /\ pc' = [pc EXCEPT ![MAIN] = "arm", ![CB] = "cb_lock"]
  /\ UNCHANGED <<env, flags, life, locks, wside, rside, bytes_transferred>>

\* async_read(), the first read; io_thread_ = std::thread(io_service::run)
RunStartIo ==
  /\ pc[MAIN] = "arm"
  /\ reads_armed' = AsyncRead
  /\ pc' = [pc EXCEPT ![MAIN] = "lock_main", ![IO] = "run"]
  /\ UNCHANGED <<env, flags, life, locks, wside, read_queue_, local_queue, read_buffer_,
                 completions, read_failed, delivered, bytes_transferred>>

\* std::unique_lock lock(main_mutex_), also on waking from the wait
RunLock ==
  /\ pc[MAIN] \in {"lock_main", "wait_woken"}
  /\ main_mutex_ = NONE
  /\ main_mutex_' = MAIN
  /\ Goto(MAIN, "wait")
  /\ UNCHANGED <<env, flags, life, callback_mutex_, write_mutex_, wside, rside,
                 bytes_transferred>>

\* the predicate of the supervisor's wait
RunPredicate == error_ \/ shutdown_

\* wait(lock, predicate): go on when the predicate holds, else unlock and block
RunWait ==
  /\ pc[MAIN] = "wait"
  /\ main_mutex_' = NONE
  /\ IF RunPredicate THEN Goto(MAIN, "stop_io") ELSE Goto(MAIN, "wait_blocked")
  /\ UNCHANGED <<env, flags, life, callback_mutex_, write_mutex_, wside, rside,
                 bytes_transferred>>

\* io_service_.stop()
RunStopIo ==
  /\ pc[MAIN] = "stop_io"
  /\ stopped' = TRUE
  /\ Goto(MAIN, "cb_shutdown")
  /\ UNCHANGED <<env, flags, is_open, joinable, owner_call, opened, closes, locks, wside,
                 rside, bytes_transferred>>

\* callback_shutdown_ = true under callback_mutex_
RunCallbackShutdown ==
  /\ pc[MAIN] = "cb_shutdown"
  /\ callback_mutex_ = NONE
  /\ callback_shutdown_' = TRUE
  /\ Goto(MAIN, "cb_notify")
  /\ UNCHANGED <<env, error_, shutdown_, new_data_, write_in_progress_, life, locks, wside,
                 rside, bytes_transferred>>

\* callback_condition_variable_.notify_one()
RunCallbackNotify ==
  /\ pc[MAIN] = "cb_notify"
  /\ pc' = NotifyCallback([pc EXCEPT ![MAIN] = "join_io"])
  /\ UNCHANGED <<env, flags, life, locks, wside, rside, bytes_transferred>>

\* io_thread_.join()
RunJoinIo ==
  /\ pc[MAIN] = "join_io"
  /\ pc[IO] = "done"
  /\ Goto(MAIN, "join_cb")
  /\ UNCHANGED <<env, flags, life, locks, wside, rside, bytes_transferred>>

\* callback_thread_.join(), and run returns
RunJoinCallback ==
  /\ pc[MAIN] = "join_cb"
  /\ pc[CB] = "done"
  /\ Goto(MAIN, "done")
  /\ UNCHANGED <<env, flags, life, locks, wside, rside, bytes_transferred>>

\* a condition variable may wake a waiting thread without a notify
SpuriousWakeup ==
  /\ \/ pc[MAIN] = "wait_blocked" /\ Goto(MAIN, "wait_woken")
     \/ pc[CB] = "cb_blocked" /\ Goto(CB, "cb_woken")
  /\ UNCHANGED <<env, flags, life, locks, wside, rside, bytes_transferred>>

(* -------------------------- process_callbacks -------------------------- *)
\* std::unique_lock lock(callback_mutex_), also on waking from the wait
CallbackLock ==
  /\ pc[CB] \in {"cb_lock", "cb_woken"}
  /\ callback_mutex_ = NONE
  /\ callback_mutex_' = CB
  /\ Goto(CB, "cb_wait")
  /\ UNCHANGED <<env, flags, life, main_mutex_, write_mutex_, wside, rside,
                 bytes_transferred>>

\* a copy in place of the splice: the chunks stay in the read queue
SpliceCopies(local, queue) == [local |-> local \o queue, queue |-> queue]

\* local_queue.splice(local_queue.end(), read_queue_): the read queue's chunks
\* move to the end of the local list
Splice(local, queue) == [local |-> local \o queue, queue |-> <<>>]

\* a loop that delivers what is queued before it ends
BreaksWhenIdle == callback_shutdown_ /\ ~new_data_

\* if (callback_shutdown_) break
Breaks == callback_shutdown_

\* a callback thread that keeps callback_mutex_ while it runs the callbacks
CallbackKeepsLock == CB

\* lock.unlock() before the callbacks are run
CallbackUnlocked == NONE

\* wait(lock, predicate); then break on shutdown, else splice the read queue
\* into the local list, clear new_data_ and unlock
CallbackWait ==
  /\ pc[CB] = "cb_wait"
  /\ IF ~(new_data_ \/ callback_shutdown_)
       THEN /\ Goto(CB, "cb_blocked")
            /\ callback_mutex_' = NONE
            /\ UNCHANGED <<new_data_, read_queue_, local_queue>>
       ELSE IF Breaks
         THEN /\ Goto(CB, "done")
              /\ callback_mutex_' = NONE
              /\ UNCHANGED <<new_data_, read_queue_, local_queue>>
         ELSE /\ local_queue' = Splice(local_queue, read_queue_).local
              /\ read_queue_' = Splice(local_queue, read_queue_).queue
              /\ new_data_' = FALSE
              /\ callback_mutex_' = CallbackUnlocked
              /\ Goto(CB, "cb_loop")
  /\ UNCHANGED <<env, error_, shutdown_, callback_shutdown_, write_in_progress_, life,
                 main_mutex_, write_mutex_, wside, read_buffer_, reads_armed,
                 completions, read_failed, delivered, bytes_transferred>>

\* while (!local_queue.empty()): call receive_callback_ on a copy of the front
CallbackLoop ==
  /\ pc[CB] = "cb_loop"
  /\ IF local_queue = <<>>
       THEN /\ Goto(CB, "cb_lock")
            /\ UNCHANGED delivered
       ELSE /\ delivered' = Append(delivered, Head(local_queue))
            /\ Goto(CB, "cb_user")
  /\ UNCHANGED <<env, flags, life, locks, wside, read_queue_, local_queue, read_buffer_,
                 reads_armed, completions, read_failed, bytes_transferred>>

\* the receive callback returns; local_queue.pop_front()
CallbackReturn ==
  /\ pc[CB] = "cb_user"
  /\ local_queue' = Tail(local_queue)
  /\ Goto(CB, "cb_loop")
  /\ UNCHANGED <<env, flags, life, locks, wside, read_queue_, read_buffer_, reads_armed,
                 completions, read_failed, delivered, bytes_transferred>>

(* ----------------------- init, close, ~Comm, shutdown ------------------ *)
\* an init() that starts main_thread_ whatever do_init() returned
InitStartsThreadAlways(ok) == TRUE

\* if (!do_init()) return false: main_thread_ is started only when do_init() succeeded
InitStartsThread(ok) == ok

\* init(): do_init() succeeds or fails; on success main_thread_ is started.
\* The owner calls init() once, on a channel it has not closed.
InitCall(ok) ==
  /\ pc[OWNER] = "idle" /\ owner_call = "none" /\ opened = "no" /\ closes = 0
  /\ opened' = IF ok THEN "ok" ELSE "failed"
  /\ is_open' = ok
  /\ IF InitStartsThread(ok)
       THEN joinable' = TRUE /\ Goto(MAIN, "start")
       ELSE UNCHANGED <<joinable, pc>>
  /\ UNCHANGED <<env, flags, stopped, owner_call, closes, locks, wside, rside,
                 bytes_transferred>>

\* close(): io_service_.stop(); do_close(); then shutdown()
CloseStop ==
  /\ pc[OWNER] = "idle" /\ owner_call = "none"
  /\ closes < env.closes
  /\ stopped' = TRUE
  /\ is_open' = FALSE
  /\ owner_call' = "close"
  /\ Goto(OWNER, "sh_set")
  /\ UNCHANGED <<env, flags, joinable, opened, closes, locks, wside, rside,
                 bytes_transferred>>

\* ~Comm(): shutdown(); the object is destroyed when no send_bytes call is running
Destroy ==
  /\ pc[OWNER] = "idle" /\ owner_call = "none"
  /\ env.dtor
  /\ \A s \in Senders : pc[s] = "idle"
  /\ owner_call' = "dtor"
  /\ Goto(OWNER, "sh_set")
  /\ UNCHANGED <<env, flags, stopped, is_open, joinable, opened, closes, locks, wside, rside,
                 bytes_transferred>>

\* shutdown(): shutdown_ = true under main_mutex_
ShutdownSet ==
  /\ pc[OWNER] = "sh_set"
  /\ main_mutex_ = NONE
  /\ shutdown_' = TRUE
  /\ Goto(OWNER, "sh_notify")
  /\ UNCHANGED <<env, error_, new_data_, callback_shutdown_, write_in_progress_, life, locks,
                 wside, rside, bytes_transferred>>

\* shutdown(): main_condition_variable_.notify_one()
ShutdownNotify ==
  /\ pc[OWNER] = "sh_notify"
  /\ pc' = NotifyMain([pc EXCEPT ![OWNER] = "sh_join"])
  /\ UNCHANGED <<env, flags, life, locks, wside, rside, bytes_transferred>>

\* a join that does not wait for the thread
MainThreadDetached == TRUE

\* main_thread_.join() can return: the supervisor thread has ended
MainThreadJoined == pc[MAIN] = "done"

\* a shutdown() that joins without asking joinable()
ShouldJoinAlways == TRUE

\* if (main_thread_.joinable())
ShouldJoin == joinable

\* shutdown(): join main_thread_ if joinable; then close() or ~Comm() returns
ShutdownJoin ==
  /\ pc[OWNER] = "sh_join"
  /\ IF ShouldJoin
       THEN MainThreadJoined /\ joinable' = FALSE
       ELSE UNCHANGED joinable
  /\ IF owner_call = "close"
       THEN /\ closes' = closes + 1
            /\ owner_call' = "none"
            /\ Goto(OWNER, "idle")
       ELSE /\ Goto(OWNER, "destroyed")
            /\ UNCHANGED <<closes, owner_call>>
  /\ UNCHANGED <<env, flags, stopped, is_open, opened, locks, wside, rside,
                 bytes_transferred>>

(* --------------------------- specification ----------------------------- *)
SenderStep ==
  \E s \in Senders :
    \/ \E len \in 0..env.len : SendBytesLock(s, len)
    \/ SendBytesLoop(s)
    \/ SendBytesKick(s)
    \/ AsyncWriteLock(s)
    \/ AsyncWriteBody(s)

IoStep ==
  \/ \E n \in 1..WRITE_BUFFER_SIZE : WriteCompleteOk(n)
  \/ WriteCompleteError
  \/ AsyncWriteEndError
  \/ AsyncWriteEndNotify
  \/ AsyncWriteEndLock
  \/ AsyncWriteEndBody
  \/ AsyncWriteLock(IO)
  \/ AsyncWriteBody(IO)
  \/ \E n \in 1..READ_BUFFER_SIZE : ReadCompleteOk(n)
  \/ ReadCompleteError
  \/ AsyncReadEndError
  \/ AsyncReadEndErrorNotify
  \/ AsyncReadEndPush
  \/ AsyncReadEndNotify
  \/ IoRunReturn

MainStep ==
  \/ RunStartCallback
  \/ RunStartIo
  \/ RunLock
  \/ RunWait
  \/ RunStopIo
  \/ RunCallbackShutdown
  \/ RunCallbackNotify
  \/ RunJoinIo
  \/ RunJoinCallback

CallbackStep ==
  \/ CallbackLock
  \/ CallbackWait
  \/ CallbackLoop
  \/ CallbackReturn

OwnerStep ==
  \/ \E ok \in BOOLEAN : InitCall(ok)
  \/ CloseStop
  \/ Destroy
  \/ ShutdownSet
  \/ ShutdownNotify
  \/ ShutdownJoin

Next ==
  \/ SenderStep
  \/ IoStep
  \/ MainStep
  \/ CallbackStep
  \/ OwnerStep
  \/ SpuriousWakeup

Spec == Init /\ [][Next]_vars

\* the steps of a send_bytes call that has taken the write mutex
SenderCallStep(s) ==
  \/ SendBytesLoop(s)
  \/ SendBytesKick(s)
  \/ AsyncWriteLock(s)
  \/ AsyncWriteBody(s)

\* the steps of the I/O thread that are not completions decided by the transport
IoHandlerStep ==
  \/ AsyncWriteEndError
  \/ AsyncWriteEndNotify
  \/ AsyncWriteEndLock
  \/ AsyncWriteEndBody
  \/ AsyncWriteLock(IO)
  \/ AsyncWriteBody(IO)
  \/ AsyncReadEndError
  \/ AsyncReadEndErrorNotify
  \/ AsyncReadEndPush
  \/ AsyncReadEndNotify
  \/ IoRunReturn

\* Every started thread keeps running, a thread that tries to lock a mutex which
\* is free again and again gets it, and the receive callback returns.  The
\* transport's completions, new send_bytes calls, the owner's calls and spurious
\* wake-ups are not forced.
Fairness ==
  /\ SF_vars(MainStep)
  /\ SF_vars(IoHandlerStep)
  /\ WF_vars(CallbackStep)
  /\ \A s \in Senders : WF_vars(SenderCallStep(s))

LiveInit == Boot /\ env = OneOfEach

LiveSpec == LiveInit /\ [][Next]_vars /\ Fairness

\* the transport completes an outstanding write successfully, with at least one byte
TransportWrites == WF_vars(\E n \in 1..WRITE_BUFFER_SIZE : WriteCompleteOk(n))

TrafficInit == Boot /\ env \in {ReadTraffic, WriteTraffic}

\* the runs in which delivery of what was read and written is checked
TrafficSpec == TrafficInit /\ [][Next]_vars /\ Fairness /\ TransportWrites

(* ------------------------------- claims -------------------------------- *)
\* no send_bytes call is running and the write queue is empty
Drained == write_queue_ = <<>> /\ \A s \in Senders : pc[s] = "idle"

\* C1: the bytes the transport's write hook accepted, in completion order, are
\* always a prefix of the payloads of the send_bytes calls concatenated in call
\* order, and equal them once the write queue has drained.
C1_WireIsPrefixOfSent ==
  /\ IsPrefix(wire, sent)
  /\ Drained => wire = sent

\* two calls, more bytes than one chunk holds, all of them written
C1_Witness ==
  /\ Drained /\ sends >= 2 /\ wire = sent
  /\ Len(wire) > 2 * WRITE_BUFFER_SIZE

\* C2: the payloads passed to the receive callback are always a prefix of the
\* payloads of the successful read completions: each at most once, in
\* completion order, byte for byte.
C2_DeliveredIsPrefixOfCompletions == IsPrefix(delivered, completions)

\* the callback runs on the first chunk after a later read overwrote the scratch buffer
C2_Witness ==
  /\ pc[CB] = "cb_user"
  /\ Len(delivered) = 1 /\ Len(completions) = 2
  /\ read_buffer_[1] = 2 /\ delivered[1][1] = 1

\* C3: at most one asynchronous write is outstanding against the transport.
C3_OneWriteOutstanding == Len(write_ops) <= 1

\* a send_bytes call reaches its kick while another call's write is outstanding
C3_Witness ==
  \E s \in Senders :
    /\ pc[s] = "sb_loop" /\ src[s] # <<>> /\ pos[s] >= Len(src[s])
    /\ Len(write_ops) = 1 /\ Head(write_ops)[1][1] # s[2]

\* the byte after b in the payload it belongs to
NextByte(b) == <<b[1], b[2], b[3] + 1>>
\* bytes a and b were handed over by the same send_bytes call
SameCall(a, b) == a[1] = b[1] /\ a[2] = b[2]
\* in the byte sequence w every call's bytes are contiguous and in payload order,
\* and each caller's calls come in the order the caller made them
Ordered(w) ==
  /\ w # <<>> => w[1][3] = 1
  /\ \A p \in 1..Len(w) - 1 :
       \/ w[p + 1] = NextByte(w[p])
       \/ w[p + 1][3] = 1 /\ \A q \in 1..p : ~SameCall(w[q], w[p + 1])
  /\ \A p, q \in 1..Len(w) :
       (p < q /\ w[p][1] = w[q][1]) => w[p][2] <= w[q][2]

\* C4: with several threads calling send_bytes, no call's bytes are interleaved
\* with another call's: every chunk in the write queue holds consecutive bytes
\* of one payload, on the wire every call's bytes are contiguous and in order
\* and each caller's calls keep their order, no byte is written twice, and once
\* the queue has drained the bytes written are exactly the bytes sent.
C4_ConcurrentSendsKeepOrder ==
  /\ \A j \in 1..Len(write_queue_) :
       \A k \in 1..Len(write_queue_[j].data) - 1 :
         write_queue_[j].data[k + 1] = NextByte(write_queue_[j].data[k])
  /\ Ordered(wire)
  /\ Cardinality(Range(wire)) = Len(wire)
  /\ Range(wire) \subseteq Range(sent)
  /\ Drained => Range(wire) = Range(sent) /\ Len(wire) = Len(sent)

\* two callers, one of them with a payload of two chunks queued behind the other's
C4_Witness ==
  /\ Drained /\ Len(wire) > WRITE_BUFFER_SIZE + 1
  /\ \E p, q \in 1..Len(wire) : wire[p][1] # wire[q][1]
  /\ wire[1][1] = 2

\* the bytes of the chunks q[from..Len(q)], concatenated
RECURSIVE Bytes(_, _)
Bytes(q, from) == IF from > Len(q) THEN <<>> ELSE q[from].data \o Bytes(q, from + 1)

\* C5: when the chunking loop of a send_bytes call of M bytes has finished, the
\* last ceil(M / WRITE_BUFFER_SIZE) chunks of the write queue are the call's:
\* each of at most WRITE_BUFFER_SIZE bytes, all but the last of exactly that
\* many, unsent, their concatenation the payload; no earlier chunk holds a byte
\* of the call (M = 0 appends nothing).
C5_ChunksOfOneCall ==
  \A s \in Senders :
    (pc[s] = "sb_loop" /\ pos[s] >= Len(src[s])) =>
      LET M == Len(src[s])
          n == (M + WRITE_BUFFER_SIZE - 1) \div WRITE_BUFFER_SIZE
          first == Len(write_queue_) - n + 1
      IN /\ Len(write_queue_) >= n
         /\ Bytes(write_queue_, first) = src[s]
         /\ \A j \in first..Len(write_queue_) :
              /\ Len(write_queue_[j].data) <= WRITE_BUFFER_SIZE
              /\ j < Len(write_queue_) => Len(write_queue_[j].data) = WRITE_BUFFER_SIZE
              /\ write_queue_[j].pos = 0
         /\ \A j \in 1..first - 1 :
              \A b \in Range(write_queue_[j].data) : ~(b[1] = s[2] /\ b[2] = sends)

\* a payload of one full chunk and a shorter last one, behind another call's chunk
C5_Witness ==
  \E s \in Senders :
    /\ pc[s] = "sb_loop" /\ pos[s] >= Len(src[s])
    /\ Len(src[s]) = WRITE_BUFFER_SIZE + 1
    /\ Len(write_queue_) = 3

\* the I/O thread has finished the error branch of async_write_end
WriteErrorHandled == failed # <<>> /\ pc[IO] \notin {"awe_err", "awe_notify"}

\* C6: once a write completion has reported an error, the failed chunk stays at
\* the front of the write queue as it was, no write is outstanding or issued
\* any more, neither by the handler nor by a later send_bytes call, and when
\* the handler has returned the error flag is set and the supervisor is not
\* blocked in its wait.
C6_WriteErrorStopsWriting ==
  failed # <<>> =>
    /\ write_queue_ # <<>> /\ Head(write_queue_) = failed[1]
    /\ write_ops = <<>>
    /\ pc[IO] # "awe_err" => error_
    /\ WriteErrorHandled => pc[MAIN] # "wait_blocked"

\* after the write error a send_bytes call has enqueued a chunk and is at its kick
C6_Witness ==
  /\ WriteErrorHandled
  /\ \E s \in Senders : pc[s] = "sb_loop" /\ src[s] # <<>> /\ pos[s] >= Len(src[s])

\* the supervisor, the I/O thread and the callback thread have ended and the
\* event loop is stopped
AllStopped ==
  /\ stopped
  /\ pc[MAIN] = "done" /\ pc[IO] = "done" /\ pc[CB] = "done"

\* C7: once a read or write completion has set the error flag, the supervisor
\* wakes, stops the event loop, and the I/O thread, the callback thread and the
\* supervisor all end, whether or not the owner ever calls close().
C7_ErrorLeadsToShutdown == error_ ~> AllStopped

\* the channel has shut down after an error although close() was never called
\* and the object was not destroyed
C7_Witness ==
  /\ error_ /\ AllStopped
  /\ ~shutdown_ /\ closes = 0 /\ owner_call = "none"

\* the supervisor, the I/O thread and the callback thread have all ended
ThreadsEnded == pc[MAIN] = "done" /\ pc[IO] = "done" /\ pc[CB] = "done"

\* close() or the destructor has returned on a channel whose init() succeeded
ClosedAfterOpen == opened = "ok" /\ (closes >= 1 \/ pc[OWNER] = "destroyed")

\* C8: when close() or the destructor has returned on an opened channel the
\* supervisor has ended, and the supervisor has ended only when the I/O thread
\* and the callback thread have: no handler and no receive callback runs then.
C8_NoThreadOutlivesClose ==
  /\ ClosedAfterOpen => ThreadsEnded
  /\ pc[MAIN] = "done" => pc[IO] = "done" /\ pc[CB] = "done"

\* close() has returned while a read and a write were still outstanding and a
\* received chunk had not been delivered
C8_Witness ==
  /\ ClosedAfterOpen /\ closes = 1
  /\ reads_armed > 0 /\ write_ops # <<>>
  /\ Len(delivered) < Len(completions)

\* the channel has no supervisor to wait for: it was closed, or it never opened
AlreadyClosed == closes >= 1 \/ opened # "ok"
\* shutdown was requested and no background thread is running
Closed ==
  /\ shutdown_
  /\ pc[MAIN] \in {"off", "done"} /\ pc[IO] \in {"off", "done"}
  /\ pc[CB] \in {"off", "done"}

\* C9: a close() or destructor call on a channel that is already closed, or
\* whose init() failed or was never called, can always take its next step (it
\* waits neither at the join nor for a mutex), and when it has returned the
\* channel is closed.
C9_CloseIsIdempotent ==
  /\ (pc[OWNER] \in {"sh_set", "sh_notify", "sh_join"} /\ AlreadyClosed)
       => ENABLED OwnerStep
  /\ (pc[OWNER] = "destroyed" \/ (pc[OWNER] = "idle" /\ closes >= 1)) => Closed

\* the object is destroyed after two close() calls on an opened channel
C9_Witness ==
  /\ pc[OWNER] = "destroyed" /\ opened = "ok" /\ closes >= 2

\* a send_bytes call that has taken the write mutex can always take its next
\* step; the mutex is held only by a thread inside its critical section, which
\* can step too
SendCanStep ==
  /\ \A s \in Senders :
       pc[s] # "idle" => write_mutex_.owner = s /\ ENABLED SenderCallStep(s)
  /\ write_mutex_.owner \in Senders => pc[write_mutex_.owner] # "idle"
  /\ write_mutex_.owner = IO =>
       pc[IO] \in {"awe_body", "aw_lock", "aw_body"} /\ ENABLED IoHandlerStep
  /\ write_mutex_.owner = NONE <=> write_mutex_.count = 0

\* a step of a running send_bytes call that hands a write to the transport hands
\* over one and ends the call
SendIssuesLast ==
  \A s \in Senders :
    (pc[s] # "idle" /\ pc'[s] # pc[s] /\ write_ops' # write_ops) =>
      /\ pc'[s] = "idle"
      /\ \E op \in Range(write_ops') : write_ops' = Append(write_ops, op)

\* C10: a send_bytes call that has taken the write mutex can always take its
\* next step: it holds the mutex, so locking it again in async_write does not
\* block, and it waits for no completion; the mutex is held only by a thread
\* inside such a critical section, which can step too; and the call issues a
\* write as its last step only, so at most one.
C10_SendNeverBlocks == []SendCanStep /\ [][SendIssuesLast]_vars

\* a call has locked the mutex a second time and is about to issue its write
C10_Witness ==
  \E s \in Senders :
    /\ pc[s] = "aw_body" /\ write_mutex_ = [owner |-> s, count |-> 2]
    /\ Len(write_queue_) >= 2

\* init() has returned false and no background thread exists: no read is armed
\* and no callback has been invoked
NoThreadAfterFailedOpen ==
  opened = "failed" =>
    /\ pc[MAIN] = "off" /\ pc[IO] = "off" /\ pc[CB] = "off"
    /\ ~joinable
    /\ reads_armed = 0 /\ completions = <<>> /\ read_queue_ = <<>>
    /\ delivered = <<>>

\* C11 as stated: if the transport's open hook fails, init() returns false and no
\* supervisor, callback or I/O thread is ever started: no read is armed, no
\* callback is invoked and no channel flag changes afterwards.
C11_NoFlagChangesAfterFailedOpen ==
  /\ []NoThreadAfterFailedOpen
  /\ [][opened = "failed" => flags' = flags]_vars

\* a step of close() or of the destructor: shutdown() sets the flag
SetByShutdown == pc[OWNER] = "sh_set" /\ pc'[OWNER] = "sh_notify"
\* a step of a send_bytes call: its async_write marks a write in flight
SetBySend == \E s \in Senders : pc[s] = "aw_body" /\ pc'[s] = "idle"

\* C11, amended: if the transport's open hook fails, init() returns false and no
\* supervisor, callback or I/O thread is ever started: no read is armed, no
\* callback is invoked, and error_, new_data_ and callback_shutdown_ stay
\* false; shutdown_ is set only by a later close() or destructor call and
\* write_in_progress_ only by a later send_bytes call.
C11_NoThreadAfterFailedOpen ==
  /\ []NoThreadAfterFailedOpen
  /\ [](opened = "failed" => ~error_ /\ ~new_data_ /\ ~callback_shutdown_)
  /\ [][opened = "failed" =>
         /\ shutdown_' # shutdown_ => SetByShutdown
         /\ write_in_progress_' # write_in_progress_ => SetBySend]_vars

\* after a failed init() the owner has closed the channel and destroyed it, and a
\* send_bytes call has handed a write to the transport
C11_Witness ==
  /\ opened = "failed" /\ pc[OWNER] = "destroyed" /\ closes >= 1
  /\ write_in_progress_ /\ write_ops # <<>>

\* callback_shutdown_ is set only when the event loop is stopped and the I/O
\* thread has ended
IoJoinedBeforeCallbackShutdown == callback_shutdown_ => stopped /\ pc[IO] = "done"

\* once callback_shutdown_ is set no chunk is appended to the read queue
NoEnqueueAfterCallbackShutdown ==
  callback_shutdown_ => Len(read_queue_') <= Len(read_queue_)

\* C12: the supervisor's shutdown steps happen in the order (1) stop the event
\* loop, (2) join the I/O thread, (3) set callback_shutdown_ and wake the callback
\* thread, (4) join the callback thread: callback_shutdown_ is never set while
\* the I/O thread is still running, so no read completion enqueues a chunk
\* after the callback thread has been told to stop.
C12_IoJoinedBeforeCallbackShutdown ==
  /\ []IoJoinedBeforeCallbackShutdown
  /\ [](pc[MAIN] = "done" => pc[CB] = "done")
  /\ [][NoEnqueueAfterCallbackShutdown]_vars

\* thread t holds one of the three mutexes
HoldsLock(t) == write_mutex_.owner = t \/ main_mutex_ = t \/ callback_mutex_ = t

\* the next step of thread t is an attempt to lock one of the three mutexes
AttemptsLock(t) ==
  \/ t \in Senders /\ pc[t] = "aw_lock"
  \/ t = IO /\ pc[t] \in {"aw_lock", "awe_lock", "awe_err", "are_err", "are_push"}
  \/ t = MAIN /\ pc[t] \in {"lock_main", "wait_woken", "cb_shutdown"}
  \/ t = CB /\ pc[t] \in {"cb_lock", "cb_woken"}
  \/ t = OWNER /\ pc[t] = "sh_set"

\* C13: the write mutex, the callback mutex and the main mutex are never
\* nested: no thread attempts to lock any of them, the one it already holds
\* included, while it holds one of them.
C13_LocksNeverNested ==
  /\ \A t \in Threads : ~(AttemptsLock(t) /\ HoldsLock(t))
  /\ write_mutex_.count <= 1

\* after a read error no read is outstanding, the handler is not on its success
\* path, and the error flag is set once the error branch has taken main_mutex_
ReadErrorHandled ==
  read_failed =>
    /\ reads_armed = 0
    /\ pc[IO] \notin {"are_push", "are_notify"}
    /\ pc[IO] # "are_err" => error_

\* from the failed completion on nothing is appended to the read queue, no
\* read is armed and no read completes
ReadPipelineStopped ==
  read_failed' =>
    /\ Len(read_queue_') <= Len(read_queue_)
    /\ reads_armed' = 0
    /\ completions' = completions

\* C14: the read pipeline ends on the first error: after a read completion that
\* reports an error the error flag is set, nothing is appended to the read
\* queue for that completion, and no further read is ever armed.
C14_ReadErrorStopsReading == []ReadErrorHandled /\ [][ReadPipelineStopped]_vars

\* a read has failed after an earlier one succeeded; the handler has returned
\* and the event loop has not been stopped yet
C14_Witness ==
  /\ read_failed /\ error_ /\ completions # <<>>
  /\ pc[IO] = "run" /\ ~stopped

\* the callback thread is delivering the chunks of its local list
RunningCallbacks == pc[CB] \in {"cb_loop", "cb_user"}

\* while callbacks run the callback thread does not hold callback_mutex_, and a
\* read completion that has reached its critical section can enter it
CallbackRunsUnlocked ==
  RunningCallbacks =>
    /\ callback_mutex_ # CB
    /\ pc[IO] = "are_push" => ENABLED AsyncReadEndPush
    /\ pc[IO] = "are_notify" => ENABLED AsyncReadEndNotify

\* the step that starts the callbacks moved the whole read queue to the end of
\* the local list, cleared new_data_ and released the mutex it held
MovedUnderLock ==
  (pc[CB] = "cb_wait" /\ pc'[CB] = "cb_loop") =>
    /\ callback_mutex_ = CB /\ callback_mutex_' = NONE
    /\ local_queue' = local_queue \o read_queue_
    /\ read_queue_' = <<>> /\ ~new_data_'

\* C15: the callback thread never holds callback_mutex_ while the receive
\* callback runs: it moves the whole read queue into its local list and clears
\* new_data_ under the mutex, releases it, and only then calls the callback, so
\* a read completion can append to the read queue and re-arm while a callback
\* is running.
C15_CallbackRunsUnlocked == []CallbackRunsUnlocked /\ [][MovedUnderLock]_vars

\* while a callback runs, a completion has appended a chunk and re-armed the read
C15_Witness ==
  /\ pc[CB] = "cb_user" /\ read_queue_ # <<>> /\ new_data_
  /\ reads_armed = 1 /\ pc[IO] = "run"

\* with the write mutex free, a write is marked in flight only while the write
\* queue holds a chunk; a kick that has found the queue empty sees the flag clear
InFlightOnlyWhenQueued ==
  /\ write_mutex_.owner = NONE => ~(write_in_progress_ /\ write_queue_ = <<>>)
  /\ \A t \in Threads :
       (pc[t] = "aw_body" /\ write_queue_ = <<>>) => ~write_in_progress_

\* the flag changes only in a step of the thread that holds the write mutex, and
\* a kick that finds the queue empty leaves it as it is
FlagChangesUnderLock ==
  /\ write_in_progress_' # write_in_progress_ =>
       /\ write_mutex_.owner # NONE
       /\ pc'[write_mutex_.owner] # pc[write_mutex_.owner]
  /\ \A t \in Threads :
       (pc[t] = "aw_body" /\ pc'[t] # "aw_body" /\ write_queue_ = <<>>) =>
         ~write_in_progress_'

\* C16: whenever the write mutex is not held, write_in_progress_ is never true
\* while the write queue is empty: the flag and the queue's emptiness change in
\* one critical section, and a kick that finds the queue empty leaves the flag
\* cleared.
C16_InFlightOnlyWhenQueued == []InFlightOnlyWhenQueued /\ [][FlagChangesUnderLock]_vars

\* a send_bytes call of no bytes kicks on an empty queue after earlier chunks
\* have been written and the handler has cleared the flag
C16_Witness ==
  /\ \E s \in Senders : pc[s] = "aw_body"
  /\ write_queue_ = <<>> /\ wire # <<>> /\ Len(wire) > WRITE_BUFFER_SIZE

\* the callback thread, awake with the mutex and callback_shutdown_ set, ends
\* without moving or delivering anything, new_data_ set or not
EndsWithoutDraining ==
  (pc[CB] = "cb_wait" /\ callback_shutdown_ /\ pc'[CB] # "cb_wait") =>
    /\ pc'[CB] = "done"
    /\ read_queue_' = read_queue_ /\ new_data_' = new_data_
    /\ local_queue' = local_queue /\ delivered' = delivered

\* once the callback thread has ended nothing is passed to the callback
NothingDeliveredAfterEnd ==
  pc[CB] = "done" => pc'[CB] = "done" /\ delivered' = delivered

\* C17: shutdown is lossy on the read side: once the callback thread wakes and
\* finds callback_shutdown_ set it leaves its loop without moving or delivering
\* anything, so every chunk still in the read queue then is never passed to the
\* callback, even when new_data_ is set as well.
C17_ShutdownDropsQueuedChunks ==
  /\ [][EndsWithoutDraining]_vars
  /\ [][NothingDeliveredAfterEnd]_vars
  /\ [](pc[CB] = "done" => local_queue = <<>>)

\* the callback thread has ended with new_data_ set and two chunks in the read
\* queue, of which at most one was appended after callback_shutdown_ was set
C17_Witness ==
  /\ pc[CB] = "done" /\ new_data_
  /\ Len(read_queue_) = 2 /\ delivered = <<>>

\* at most one read is outstanding, and none while the handler of a completed
\* read has not armed the next: the scratch buffer then holds the bytes of
\* that completion, which are what the handler copies
ScratchBufferStable ==
  /\ reads_armed <= 1
  /\ pc[IO] \in {"are_push", "are_notify"} => reads_armed = 0
  /\ pc[IO] = "are_push" =>
       /\ completions # <<>>
       /\ ReadBuffer(read_buffer_, bytes_transferred) = completions[Len(completions)]

\* a read is armed only by the supervisor at start-up and by the handler of a
\* successful completion after it has appended the copy
ArmedOnlyAfterCopy ==
  reads_armed' > reads_armed =>
    \/ pc[MAIN] = "arm" /\ pc'[MAIN] = "lock_main" /\ completions = <<>>
    \/ pc[IO] = "are_notify" /\ pc'[IO] = "run"

\* C19: the scratch buffer is not used after the next read is armed: on each
\* successful completion the received bytes are copied into a new chunk and
\* appended to the read queue before the next read is armed, and at most one
\* read is outstanding at any time (armed once by the supervisor at start-up
\* and once per successful completion).
C19_CopyBeforeRearm == []ScratchBufferStable /\ [][ArmedOnlyAfterCopy]_vars

\* the handler is about to copy the one byte of a second completion out of a
\* scratch buffer that still holds a byte of the first
C19_Witness ==
  /\ pc[IO] = "are_push" /\ Len(completions) = 2
  /\ bytes_transferred = 1 /\ read_buffer_[1] = 2 /\ read_buffer_[2] = 1

\* chunks appended to the read queue so far
Appended == Len(completions) - (IF pc[IO] = "are_push" THEN 1 ELSE 0)

\* what was passed to the callback is, chunk by chunk, what was appended
DeliveredOnce ==
  /\ Len(delivered) <= Appended
  /\ \A k \in 1..Len(delivered) : delivered[k] = completions[k]

\* C18: absent error and shutdown, every chunk a successful read completion has
\* appended to the read queue is eventually passed to the receive callback,
\* once: the callback thread misses no wake-up, whether the chunk arrives while
\* it waits or while it runs a callback (every callback returning).
C18_AppendedIsDelivered ==
  /\ []DeliveredOnce
  /\ \A k \in 1..MaxReads :
       (Appended >= k) ~> (Len(delivered) >= k \/ error_ \/ shutdown_)

\* every chunk has been delivered and the callback thread waits again, with no
\* error and no shutdown request
C18_Witness ==
  /\ Len(delivered) = MaxReads /\ pc[CB] = "cb_blocked"
  /\ ~error_ /\ ~shutdown_

\* a write of the front chunk's unsent remainder is outstanding at the
\* transport, or has completed and its handler is about to take the write mutex
FrontWriteOutstanding ==
  \/ write_ops = <<Remainder(Head(write_queue_))>>
  \/ write_ops = <<>> /\ pc[IO] = "awe_lock"

\* with no write error reported, the write mutex free and a chunk queued, a
\* write is marked in flight and one of the front chunk is outstanding
NeverStalled ==
  (failed = <<>> /\ write_mutex_.owner = NONE /\ write_queue_ # <<>>) =>
    write_in_progress_ /\ FrontWriteOutstanding

\* the channel has stopped, or is about to: an error or a shutdown request
Stopping == error_ \/ shutdown_ \/ stopped

\* C20: the write pipeline never stalls. As long as no error has been reported,
\* whenever the write mutex is not held and the write queue is not empty,
\* write_in_progress_ is set and a write of the front chunk is outstanding (or
\* its completion handler is starting); so with a transport that completes
\* every write successfully with at least one byte, on an open channel that is
\* not stopping, every byte handed to send_bytes is eventually written, however
\* the send_bytes calls interleave with the completions.
C20_WritePipelineNeverStalls ==
  /\ []NeverStalled
  /\ (opened = "ok") ~> (wire = sent \/ Stopping)

\* two chunks are queued, the front one partly written, and the write of its
\* remainder is outstanding
C20_Witness ==
  /\ write_mutex_.owner = NONE /\ failed = <<>>
  /\ Len(write_queue_) >= 2 /\ Head(write_queue_).pos > 0
  /\ write_ops = <<Remainder(Head(write_queue_))>>

====
